---- MODULE Spec2Model ----
(***************************************************************************)
(* Model of the book-rating preprocessing pipeline of                      *)
(* src/src/data/processors.py (BookDataProcessor): clean_ratings,          *)
(* filter_sparse_data, create_interaction_matrix,                          *)
(* create_llm_context_features and process_all.                            *)
(*                                                                         *)
(* A polars DataFrame is a sequence of rows (records); a polars null is    *)
(* the value Null.  Identifiers are small integers, ordered as the column  *)
(* sort orders them, with Null before every identifier.                    *)
(*                                                                         *)
(* The second part models the embedding service: ModelManager of           *)
(* src/src/models/sentence_transformers.py and the FastAPI handlers of     *)
(* src/src/api/main.py with the request schemas of src/src/api/schemas.py. *)
(***************************************************************************)
EXTENDS Integers, Sequences, FiniteSets, TLC

\* ---------------------------------------------------------------- bounds
NumUsers == 2
NumBooks == 2
MaxRating == 2
MaxRows == 3
MaxThreshold == 2
\* most texts in a batch request, and the largest MAX_BATCH_SIZE setting
MaxTexts == 34
MaxBatchSetting == 34
\* the load_model call counter stops counting here
MaxLoadCalls == 3

\* ------------------------------------------------------------- constants
\* a polars null in a column (a missing CSV field)
Null == -1
\* width of the cleaned ratings frame: user_id, isbn, rating
NumCols == 3

\* the smallest User-ID of the ratings file: User-ID is an integer column,
\* and the identifiers 9 and 10 order differently as numbers and as tokens
FirstUserId == 9

UserIds == FirstUserId..(FirstUserId + NumUsers - 1)
Isbns == 1..NumBooks
Ratings == 1..MaxRating
Thresholds == 0..MaxThreshold

\* value of a local that has not been assigned yet
None == <<>>

VARIABLES
    pc,                    \* position inside process_all
    raw_ratings,           \* the `ratings` argument of process_all
    min_ratings_per_user,  \* self.min_ratings_per_user
    min_ratings_per_book,  \* self.min_ratings_per_book
    ratings,               \* local `ratings` of filter_sparse_data
    user_counts,           \* local `user_counts`
    book_counts,           \* local `book_counts`
    prev_shape,            \* local `prev_shape`
    n_pass,                \* how many times the loop body has run
    filtered_ratings,      \* process_all's `filtered_ratings`
    interaction_matrix,    \* process_all's `interaction_matrix`
    mappings,              \* process_all's `mappings`
    returned,              \* the tuple process_all hands to its caller
    svc_pc,                \* "off", or the service's lifespan phase
    max_batch_size,        \* settings.MAX_BATCH_SIZE
    manager,               \* model_manager: _model, model_loaded, load_time
    load_calls,            \* how many times load_model has been called
    constructed,           \* how many SentenceTransformer objects were built
    load_raised,           \* what the last load_model call raised
    request,               \* the last request's body
    response               \* the last response

pipeVars == <<pc, raw_ratings, min_ratings_per_user, min_ratings_per_book, ratings,
              user_counts, book_counts, prev_shape, n_pass, filtered_ratings,
              interaction_matrix, mappings, returned>>

svcVars == <<svc_pc, max_batch_size, manager, load_calls, constructed, load_raised,
             request, response>>

vars == <<pipeVars, svcVars>>

\* ---------------------------------------------------------------- helpers
Range(s) == {s[i] : i \in DOMAIN s}

SetMin(S) == CHOOSE m \in S : \A x \in S : m <= x

SetMax(S) == CHOOSE m \in S : \A x \in S : x <= m

\* mutant of Sort: descending
RECURSIVE SortDescending(_)
SortDescending(S) ==
    IF S = {} THEN <<>> ELSE <<SetMax(S)>> \o SortDescending(S \ {SetMax(S)})

\* Series.sort(): ascending, nulls first
RECURSIVE Sort(_)
Sort(S) == IF S = {} THEN <<>> ELSE <<SetMin(S)>> \o Sort(S \ {SetMin(S)})

\* Series.unique(): the distinct values of a column (null is a value)
Unique(col) == Range(col)

Column(r, name) == [i \in DOMAIN r |-> r[i][name]]

\* DataFrame.shape
Shape(r) == <<Len(r), NumCols>>

\* the token of an integer in the CSV file: its decimal digits
RECURSIVE Digits(_)
Digits(n) == IF n < 10 THEN <<n>> ELSE Digits(n \div 10) \o <<n % 10>>

\* lexicographic order of two tokens
RECURSIVE LexLess(_, _)
LexLess(s, t) ==
    IF t = <<>> THEN FALSE
    ELSE IF s = <<>> THEN TRUE
    ELSE IF Head(s) # Head(t) THEN Head(s) < Head(t)
    ELSE LexLess(Tail(s), Tail(t))

\* rows of the raw Ratings.csv frame
RawRow == [User_ID : UserIds \cup {Null}, ISBN : Isbns \cup {Null}, Book_Rating : Ratings]

RECURSIVE SeqsUpTo(_, _)
SeqsUpTo(S, n) ==
    IF n = 0 THEN {<<>>}
    ELSE LET shorter == SeqsUpTo(S, n - 1)
         IN  shorter \cup {Append(s, x) : s \in {t \in shorter : Len(t) = n - 1}, x \in S}

\* ------------------------------------------------------------ clean_ratings
CleanRatings(rs) ==
    [i \in DOMAIN rs |->
        [user_id |-> rs[i].User_ID, isbn |-> rs[i].ISBN, rating |-> rs[i].Book_Rating]]

\* ------------------------------------------------------- filter_sparse_data
\* ratings.group_by(key).len(): one row per distinct key, null included
GroupLen(r, key) ==
    [k \in {r[i][key] : i \in DOMAIN r} |-> Cardinality({i \in DOMAIN r : r[i][key] = k})]

\* mutant of JoinFilter: the comparison is inverted
JoinFilterInverted(r, counts, key, minimum) ==
    SelectSeq(r, LAMBDA t : /\ t[key] # Null
                            /\ t[key] \in DOMAIN counts
                            /\ counts[t[key]] <= minimum)

\* mutant of JoinFilter: the comparison is strict
JoinFilterStrict(r, counts, key, minimum) ==
    SelectSeq(r, LAMBDA t : /\ t[key] # Null
                            /\ t[key] \in DOMAIN counts
                            /\ counts[t[key]] > minimum)

\* ratings.join(counts, on=key).filter(count >= minimum).drop(count):
\* an inner join, in which a null key matches nothing
JoinFilter(r, counts, key, minimum) ==
    SelectSeq(r, LAMBDA t : /\ t[key] # Null
                            /\ t[key] \in DOMAIN counts
                            /\ counts[t[key]] >= minimum)

\* mutant of FilterPass: the book filter is left out
FilterPassUsersOnly(r, uc, bc, mu, mb) == JoinFilter(r, uc, "user_id", mu)

\* mutant of FilterPass: the book counts are retaken after the user filter
FilterPassFreshCounts(r, uc, bc, mu, mb) ==
    LET kept == JoinFilter(r, uc, "user_id", mu)
    IN  JoinFilter(kept, GroupLen(kept, "isbn"), "isbn", mb)

\* the body of the while loop up to the recount: the user filter, then the
\* book filter with the book counts taken before this pass's user filter
FilterPass(r, uc, bc, mu, mb) ==
    JoinFilter(JoinFilter(r, uc, "user_id", mu), bc, "isbn", mb)

\* mutant of LoopContinues: the body runs once, whatever it removed
LoopContinuesOnce(shape, prev) == prev = <<0, 0>>

\* mutant of LoopContinues: the comparison never finds the shapes equal
LoopContinuesAlways(shape, prev) == TRUE

\* while ratings.shape != prev_shape
LoopContinues(shape, prev) == shape # prev

RECURSIVE FilterLoop(_, _, _, _, _, _)
FilterLoop(r, uc, bc, prev, mu, mb) ==
    IF ~LoopContinues(Shape(r), prev) THEN r
    ELSE LET r2 == FilterPass(r, uc, bc, mu, mb)
         IN  FilterLoop(r2, GroupLen(r2, "user_id"), GroupLen(r2, "isbn"), Shape(r), mu, mb)

FilterSparseData(r, mu, mb) ==
    FilterLoop(r, GroupLen(r, "user_id"), GroupLen(r, "isbn"), <<0, 0>>, mu, mb)

\* ------------------------------------------------ create_interaction_matrix
\* mutant of Enumerate: the indices start at 1
EnumerateFromOne(list) ==
    [x \in Range(list) |-> SetMax({i \in DOMAIN list : list[i] = x})]

\* {x: idx for idx, x in enumerate(list)}: a later entry overwrites an earlier
Enumerate(list) ==
    [x \in Range(list) |-> SetMax({i \in DOMAIN list : list[i] = x}) - 1]

\* {v: k for k, v in d.items()}: items come in insertion (sorted key) order
Invert(d) ==
    [v \in {d[k] : k \in DOMAIN d} |-> SetMax({k \in DOMAIN d : d[k] = v})]

\* map_elements(lambda x: d[x]): nulls are skipped and stay null
MapElements(x, d) == IF x = Null THEN Null ELSE d[x]

UniqueSorted(r, key) == Sort(Unique(Column(r, key)))

\* mutant of InteractionRows: user_idx is looked up from the isbn column
InteractionRowsBookForUser(r, user_to_idx, book_to_idx) ==
    [i \in DOMAIN r |->
        [user_id  |-> r[i].user_id,
         isbn     |-> r[i].isbn,
         rating   |-> r[i].rating,
         user_idx |-> MapElements(r[i].isbn, book_to_idx),
         book_idx |-> MapElements(r[i].isbn, book_to_idx)]]

InteractionRows(r, user_to_idx, book_to_idx) ==
    [i \in DOMAIN r |->
        [user_id  |-> r[i].user_id,
         isbn     |-> r[i].isbn,
         rating   |-> r[i].rating,
         user_idx |-> MapElements(r[i].user_id, user_to_idx),
         book_idx |-> MapElements(r[i].isbn, book_to_idx)]]

Mappings(r) ==
    LET unique_users == UniqueSorted(r, "user_id")
        unique_books == UniqueSorted(r, "isbn")
        user_to_idx  == Enumerate(unique_users)
        book_to_idx  == Enumerate(unique_books)
    IN  [user_to_idx |-> user_to_idx,
         book_to_idx |-> book_to_idx,
         idx_to_user |-> Invert(user_to_idx),
         idx_to_book |-> Invert(book_to_idx),
         n_users     |-> Len(unique_users),
         n_books     |-> Len(unique_books)]

\* --------------------------------------------- create_llm_context_features
RECURSIVE SumRatings(_)
SumRatings(r) == IF r = <<>> THEN 0 ELSE Head(r).rating + SumRatings(Tail(r))

RECURSIVE SumSquares(_)
SumSquares(r) ==
    IF r = <<>> THEN 0 ELSE Head(r).rating * Head(r).rating + SumSquares(Tail(r))

RowsOf(r, key, k) == SelectSeq(r, LAMBDA t : t[key] = k)

\* users.join(user_profiles, on="user_id"): the inner join keeps the users
\* that have ratings; the mean is kept exactly, as rating_sum / total_ratings
EnhancedUsers(users, r) ==
    LET kept == SelectSeq(users, LAMBDA k : k \in {r[i].user_id : i \in DOMAIN r})
    IN  [i \in DOMAIN kept |->
            [user_id       |-> kept[i],
             rating_sum    |-> SumRatings(RowsOf(r, "user_id", kept[i])),
             total_ratings |-> Len(RowsOf(r, "user_id", kept[i]))]]

\* books.join(book_stats, on="isbn"); the standard deviation is determined
\* by rating_sum, rating_sq_sum and total_ratings
EnhancedBooks(books, r) ==
    LET kept == SelectSeq(books, LAMBDA k : k \in {r[i].isbn : i \in DOMAIN r})
    IN  [i \in DOMAIN kept |->
            [isbn          |-> kept[i],
             rating_sum    |-> SumRatings(RowsOf(r, "isbn", kept[i])),
             rating_sq_sum |-> SumSquares(RowsOf(r, "isbn", kept[i])),
             total_ratings |-> Len(RowsOf(r, "isbn", kept[i]))]]

\* the books and users metadata tables: one row per known identifier
BooksTable == Sort(Isbns)

UsersTable == Sort(UserIds)

\* table.filter(pl.col(key).is_in(filtered[key]))
ValidRows(table, r, key) == SelectSeq(table, LAMBDA k : k \in Range(Column(r, key)))

\* ------------------------------------------------------------ ModelManager
\* ModelManager.__init__
NewManager == [model |-> "None", model_loaded |-> FALSE, load_time |-> "None"]

\* settings.MODEL_CACHE_DIR and settings.MODEL_NAME are os.getenv strings
CacheDirType == "str"

ModelNameType == "str"

\* the type of `left / right`: only a Path has the / operator
Truediv(left, right) ==
    IF left = "Path" /\ right \in {"str", "Path"} THEN "Path" ELSE "TypeError"

\* SentenceTransformer(path) returns a model or raises
CtorOutcomes == {"model", "raises"}

\* mutant of LoadModel: model_loaded is set before anything can fail
LoadModelFlagFirst(mgr, ctor) ==
    IF mgr.model # "None"
    THEN [manager |-> mgr, raised |-> "none", built |-> 0]
    ELSE [manager |-> [mgr EXCEPT !.model_loaded = TRUE], raised |-> "TypeError",
          built |-> 0]

\* load_model: the new manager, what the call raised, and how many models
\* it built.  The path is joined before the try block, so a TypeError of
\* the join leaves load_model as it is; an exception of the constructor is
\* re-raised as RuntimeError.
LoadModel(mgr, ctor) ==
    IF mgr.model # "None"
    THEN [manager |-> mgr, raised |-> "none", built |-> 0]
    ELSE IF Truediv(CacheDirType, ModelNameType) = "TypeError"
    THEN [manager |-> mgr, raised |-> "TypeError", built |-> 0]
    ELSE IF ctor = "raises"
    THEN [manager |-> mgr, raised |-> "RuntimeError", built |-> 0]
    ELSE [manager |-> [model |-> "model", model_loaded |-> TRUE, load_time |-> "set"],
          raised |-> "none", built |-> 1]

\* mutant of EnsureLoaded: the load is never attempted
EnsureLoadedNever(mgr, ctor) ==
    [manager |-> mgr, raised |-> "none", built |-> 0, called |-> FALSE]

\* `if not self.model_loaded: self.load_model()`
EnsureLoaded(mgr, ctor) ==
    IF mgr.model_loaded
    THEN [manager |-> mgr, raised |-> "none", built |-> 0, called |-> FALSE]
    ELSE [manager |-> LoadModel(mgr, ctor).manager,
          raised  |-> LoadModel(mgr, ctor).raised,
          built   |-> LoadModel(mgr, ctor).built,
          called  |-> TRUE]

\* what self._model.encode(...) raises: None has no encode
EncodeRaises(mgr) == IF mgr.model = "None" THEN "AttributeError" ELSE "none"

\* ---------------------------------------------------------------- schemas
\* BatchTextInput.texts: max_length
SchemaMaxTexts == 32

\* BatchTextInput.texts: min_length
SchemaMinTexts == 1

\* settings.MAX_BATCH_SIZE when the environment does not set it
DefaultMaxBatchSize == 32

\* a request body: how many texts it carries, and whether every text passes
\* the field validators (not blank, at most 512 characters)
Requests == [n_texts : 0..MaxTexts, texts_ok : BOOLEAN]

NoRequest == [n_texts |-> 0, texts_ok |-> TRUE]

Resp(endpoint, code, kind, status, loaded, n, attempted) ==
    [endpoint |-> endpoint, status_code |-> code, kind |-> kind, status |-> status,
     model_loaded |-> loaded, n_embeddings |-> n, load_attempted |-> attempted]

NoResponse == Resp("none", 0, "none", "", FALSE, 0, FALSE)

\* BatchTextInput validation
BatchValid(req) ==
    /\ req.n_texts >= SchemaMinTexts
    /\ req.n_texts <= SchemaMaxTexts
    /\ req.texts_ok

\* liveness()
Liveness(mgr) ==
    Resp("/health/live", 200, "HealthResponse", "alive", mgr.model_loaded, 0, FALSE)

\* mutant of Readiness: the model_loaded check is left out
ReadinessAlways(mgr) ==
    Resp("/health/ready", 200, "HealthResponse", "ready", TRUE, 0, FALSE)

\* readiness()
Readiness(mgr) ==
    IF ~mgr.model_loaded
    THEN Resp("/health/ready", 503, "HTTPException", "", FALSE, 0, FALSE)
    ELSE Resp("/health/ready", 200, "HealthResponse", "ready", TRUE, 0, FALSE)

\* the predict_batch handler around ModelManager.predict_batch, given the
\* outcome of the load it may have made
PredictBatchResponse(req, limit, loaded) ==
    IF loaded.raised # "none"
    THEN Resp("/predict/batch", 500, "HTTPException", "", FALSE, 0, loaded.called)
    ELSE IF req.n_texts > limit
    THEN Resp("/predict/batch", 400, "HTTPException", "", FALSE, 0, loaded.called)
    ELSE IF EncodeRaises(loaded.manager) # "none"
    THEN Resp("/predict/batch", 500, "HTTPException", "", FALSE, 0, loaded.called)
    ELSE Resp("/predict/batch", 200, "BatchEmbeddingResponse", "", FALSE,
              req.n_texts, loaded.called)

\* the predict and compute_similarity handlers around predict_single and
\* compute_similarity, given the outcome of the load they may have made
InferenceResponse(endpoint, kind, loaded) ==
    IF loaded.raised # "none" \/ EncodeRaises(loaded.manager) # "none"
    THEN Resp(endpoint, 500, "HTTPException", "", FALSE, 0, loaded.called)
    ELSE Resp(endpoint, 200, kind, "", FALSE, 1, loaded.called)

\* the pipeline's variables while the service is what runs
PipelineIdle ==
    /\ pc = "idle"
    /\ raw_ratings = <<>>
    /\ min_ratings_per_user = 0
    /\ min_ratings_per_book = 0
    /\ ratings = None
    /\ user_counts = None
    /\ book_counts = None
    /\ prev_shape = None
    /\ n_pass = 0
    /\ filtered_ratings = None
    /\ interaction_matrix = None
    /\ mappings = None
    /\ returned = None

\* the service's variables while the pipeline is what runs
ServiceOff ==
    /\ svc_pc = "off"
    /\ max_batch_size = DefaultMaxBatchSize
    /\ manager = NewManager
    /\ load_calls = 0
    /\ constructed = 0
    /\ load_raised = "none"
    /\ request = NoRequest
    /\ response = NoResponse

\* the pass counter stops counting here; a pass removes a row or is the
\* last, so the loop body runs at most MaxRows + 1 times
PassCap == MaxRows + 2

\* ------------------------------------------------------------------- Init
Init ==
    /\ pc = "start"
    /\ raw_ratings \in SeqsUpTo(RawRow, MaxRows)
    /\ min_ratings_per_user \in Thresholds
    /\ min_ratings_per_book \in Thresholds
    /\ ratings = None
    /\ user_counts = None
    /\ book_counts = None
    /\ prev_shape = None
    /\ n_pass = 0
    /\ filtered_ratings = None
    /\ interaction_matrix = None
    /\ mappings = None
    /\ returned = None
    /\ ServiceOff

\* ---------------------------------------------------------------- actions
\* process_all, lines 131-137: clean, then enter filter_sparse_data, which
\* counts per user and per book and sets prev_shape = (0, 0)
FilterInit ==
    /\ pc = "start"
    /\ LET clean_ratings == CleanRatings(raw_ratings)
       IN  /\ ratings' = clean_ratings
           /\ user_counts' = GroupLen(clean_ratings, "user_id")
           /\ book_counts' = GroupLen(clean_ratings, "isbn")
    /\ prev_shape' = <<0, 0>>
    /\ pc' = "filter_loop"
    /\ UNCHANGED <<raw_ratings, min_ratings_per_user, min_ratings_per_book, n_pass,
                   filtered_ratings, interaction_matrix, mappings, returned>>
    /\ UNCHANGED svcVars

\* one iteration of the while loop
FilterPassStep ==
    /\ pc = "filter_loop"
    /\ LoopContinues(Shape(ratings), prev_shape)
    /\ prev_shape' = Shape(ratings)
    /\ LET r2 == FilterPass(ratings, user_counts, book_counts,
                            min_ratings_per_user, min_ratings_per_book)
       IN  /\ ratings' = r2
           /\ user_counts' = GroupLen(r2, "user_id")
           /\ book_counts' = GroupLen(r2, "isbn")
    /\ n_pass' = IF n_pass < PassCap THEN n_pass + 1 ELSE n_pass
    /\ UNCHANGED <<pc, raw_ratings, min_ratings_per_user, min_ratings_per_book,
                   filtered_ratings, interaction_matrix, mappings, returned>>
    /\ UNCHANGED svcVars

\* the loop condition fails: return ratings to process_all
FilterReturn ==
    /\ pc = "filter_loop"
    /\ ~LoopContinues(Shape(ratings), prev_shape)
    /\ filtered_ratings' = ratings
    /\ pc' = "matrix"
    /\ UNCHANGED <<raw_ratings, min_ratings_per_user, min_ratings_per_book, ratings,
                   user_counts, book_counts, prev_shape, n_pass, interaction_matrix,
                   mappings, returned>>
    /\ UNCHANGED svcVars

CreateInteractionMatrix ==
    /\ pc = "matrix"
    /\ LET m == Mappings(filtered_ratings)
       IN  /\ mappings' = m
           /\ interaction_matrix' =
                  InteractionRows(filtered_ratings, m.user_to_idx, m.book_to_idx)
    /\ pc' = "features"
    /\ UNCHANGED <<raw_ratings, min_ratings_per_user, min_ratings_per_book, ratings,
                   user_counts, book_counts, prev_shape, n_pass, filtered_ratings,
                   returned>>
    /\ UNCHANGED svcVars

\* the tuple returned by process_all
ReturnValue(fr, m) ==
    [enhanced_books   |-> EnhancedBooks(ValidRows(BooksTable, fr, "isbn"), fr),
     filtered_ratings |-> fr,
     enhanced_users   |-> EnhancedUsers(ValidRows(UsersTable, fr, "user_id"), fr),
     mappings         |-> m]

ProcessAllReturn ==
    /\ pc = "features"
    /\ returned' = ReturnValue(filtered_ratings, mappings)
    /\ pc' = "returned"
    /\ UNCHANGED <<raw_ratings, min_ratings_per_user, min_ratings_per_book, ratings,
                   user_counts, book_counts, prev_shape, n_pass, filtered_ratings,
                   interaction_matrix, mappings>>
    /\ UNCHANGED svcVars

Next ==
    \/ FilterInit
    \/ FilterPassStep
    \/ FilterReturn
    \/ CreateInteractionMatrix
    \/ ProcessAllReturn

Spec == Init /\ [][Next]_vars

\* the inputs whose ratings are all alike: the filter loop never reads the
\* rating column, so these inputs exercise every run of the loop
InitLoop ==
    /\ Init
    /\ \A i \in DOMAIN raw_ratings : raw_ratings[i].Book_Rating = 1

\* process_all is synchronous and single-threaded: a step that can run does
FairSpec == InitLoop /\ [][Next]_vars /\ WF_vars(Next)

TypeOK ==
    /\ pc \in {"idle", "start", "filter_loop", "matrix", "features", "returned"}
    /\ min_ratings_per_user \in Thresholds
    /\ min_ratings_per_book \in Thresholds
    /\ Len(raw_ratings) <= MaxRows
    /\ n_pass \in 0..(Len(raw_ratings) + 1)

\* ---------------------------------------------------------- the service
InitSvc ==
    /\ PipelineIdle
    /\ svc_pc = "startup"
    /\ max_batch_size \in 0..MaxBatchSetting
    /\ manager = NewManager
    /\ load_calls = 0
    /\ constructed = 0
    /\ load_raised = "none"
    /\ request = NoRequest
    /\ response = NoResponse

\* the manager after a handler that may have called load_model
Loaded(r) ==
    /\ manager' = r.manager
    /\ constructed' = IF constructed + r.built <= MaxLoadCalls
                      THEN constructed + r.built ELSE constructed
    /\ load_calls' = IF r.called /\ load_calls < MaxLoadCalls
                     THEN load_calls + 1 ELSE load_calls
    /\ load_raised' = IF r.called THEN r.raised ELSE load_raised

\* lifespan, startup half: load_model is called and whatever it raises is
\* logged and dropped
Startup ==
    /\ svc_pc = "startup"
    /\ \E ctor \in CtorOutcomes :
          LET r == LoadModel(manager, ctor)
          IN  Loaded([manager |-> r.manager, raised |-> r.raised, built |-> r.built,
                      called |-> TRUE])
    /\ svc_pc' = "serving"
    /\ UNCHANGED <<max_batch_size, request, response>>
    /\ UNCHANGED pipeVars

HealthLive ==
    /\ svc_pc = "serving"
    /\ request' = NoRequest
    /\ response' = Liveness(manager)
    /\ UNCHANGED <<svc_pc, max_batch_size, manager, load_calls, constructed, load_raised>>
    /\ UNCHANGED pipeVars

HealthReady ==
    /\ svc_pc = "serving"
    /\ request' = NoRequest
    /\ response' = Readiness(manager)
    /\ UNCHANGED <<svc_pc, max_batch_size, manager, load_calls, constructed, load_raised>>
    /\ UNCHANGED pipeVars

\* a request the schema rejects never reaches the handler
Rejected(endpoint, req) ==
    /\ request' = req
    /\ response' = Resp(endpoint, 422, "ValidationError", "", FALSE, 0, FALSE)
    /\ UNCHANGED <<svc_pc, max_batch_size, manager, load_calls, constructed, load_raised>>
    /\ UNCHANGED pipeVars

\* POST /predict/batch
PredictBatch ==
    /\ svc_pc = "serving"
    /\ \E req \in Requests, ctor \in CtorOutcomes :
          IF ~BatchValid(req)
          THEN Rejected("/predict/batch", req)
          ELSE LET r == EnsureLoaded(manager, ctor)
               IN  /\ Loaded(r)
                   /\ request' = req
                   /\ response' = PredictBatchResponse(req, max_batch_size, r)
                   /\ UNCHANGED <<svc_pc, max_batch_size>>
                   /\ UNCHANGED pipeVars

\* POST /predict (one text) and POST /similarity (two texts)
Inference(endpoint, kind, n) ==
    /\ svc_pc = "serving"
    /\ \E ok \in BOOLEAN, ctor \in CtorOutcomes :
          LET req == [n_texts |-> n, texts_ok |-> ok]
          IN  IF ~ok
              THEN Rejected(endpoint, req)
              ELSE LET r == EnsureLoaded(manager, ctor)
                   IN  /\ Loaded(r)
                       /\ request' = req
                       /\ response' = InferenceResponse(endpoint, kind, r)
                       /\ UNCHANGED <<svc_pc, max_batch_size>>
                       /\ UNCHANGED pipeVars

Predict == Inference("/predict", "EmbeddingResponse", 1)

Similarity == Inference("/similarity", "SimilarityResponse", 2)

NextSvc ==
    \/ Startup
    \/ HealthLive
    \/ HealthReady
    \/ PredictBatch
    \/ Predict
    \/ Similarity

SvcSpec == InitSvc /\ [][NextSvc]_vars

\* ------------------------------------------------------------- properties
AfterFilter == {"matrix", "features", "returned"}

AfterMatrix == {"features", "returned"}

\* number of rows of r whose column `key` holds k
CountIn(r, key, k) == Cardinality({i \in DOMAIN r : r[i][key] = k})

\* every row's user and book meet the thresholds, counted within r itself
MeetsMinimums(r, mu, mb) ==
    \A i \in DOMAIN r : /\ CountIn(r, "user_id", r[i].user_id) >= mu
                        /\ CountIn(r, "isbn", r[i].isbn) >= mb

\* C1: the set returned by filter_sparse_data satisfies the minimum-count
\* invariant over itself: every returned triple's user has at least
\* min_ratings_per_user returned triples and its isbn at least
\* min_ratings_per_book returned triples.
C1_FixedPoint ==
    pc \in AfterFilter =>
        MeetsMinimums(filtered_ratings, min_ratings_per_user, min_ratings_per_book)

\* a non-empty result that is smaller than the input, both thresholds at 2
C1_Witness ==
    /\ pc = "matrix"
    /\ filtered_ratings # <<>>
    /\ Len(filtered_ratings) < Len(raw_ratings)
    /\ min_ratings_per_user = 2
    /\ min_ratings_per_book = 2

\* C2: the filtering loop of filter_sparse_data terminates for every input
\* and every pair of thresholds: the loop is eventually left.
C2_Terminates == <>(pc = "matrix")

\* the loop has been left with everything of a non-empty input eliminated
C2_Witness ==
    /\ pc = "matrix"
    /\ Len(raw_ratings) = MaxRows
    /\ filtered_ratings = <<>>

\* the loop has been left on an empty input
C2_WitnessEmpty ==
    /\ pc = "matrix"
    /\ raw_ratings = <<>>

\* C3: filter_sparse_data is idempotent: applied with the same thresholds
\* to its own output it returns exactly that output.
C3_Idempotent ==
    pc \in AfterFilter =>
        FilterSparseData(filtered_ratings, min_ratings_per_user, min_ratings_per_book)
            = filtered_ratings

\* a first application that removed rows and kept some
C3_Witness ==
    /\ pc = "matrix"
    /\ filtered_ratings # <<>>
    /\ Len(filtered_ratings) < Len(raw_ratings)
    /\ min_ratings_per_user >= 2

\* C4: for a fixed input and a fixed min_ratings_per_book, raising
\* min_ratings_per_user from a to b (a <= b) never makes filter_sparse_data
\* return more triples.
C4_MonotoneInUserThreshold ==
    pc = "matrix" =>
        \A b \in Thresholds :
            min_ratings_per_user <= b =>
                Len(FilterSparseData(CleanRatings(raw_ratings), b, min_ratings_per_book))
                    <= Len(filtered_ratings)

\* some higher user threshold returns strictly fewer triples
C4_Witness ==
    /\ pc = "matrix"
    /\ filtered_ratings # <<>>
    /\ \E b \in Thresholds :
          /\ min_ratings_per_user < b
          /\ Len(FilterSparseData(CleanRatings(raw_ratings), b, min_ratings_per_book))
                < Len(filtered_ratings)

\* forward is a bijection from ids onto [0, n) and reverse is its inverse
IsIndexMap(ids, forward, reverse, n) ==
    /\ DOMAIN forward = ids
    /\ {forward[x] : x \in ids} = 0..(n - 1)
    /\ n = Cardinality(ids)
    /\ \A x, y \in ids : forward[x] = forward[y] => x = y
    /\ DOMAIN reverse = 0..(n - 1)
    /\ \A x \in ids : reverse[forward[x]] = x
    /\ \A k \in 0..(n - 1) : forward[reverse[k]] = k

\* C5: user_to_idx (book_to_idx) is a bijection between exactly the distinct
\* user ids (isbns) of the rating set given to create_interaction_matrix and
\* [0, n_users) ([0, n_books)), and idx_to_user (idx_to_book) is its inverse.
C5_Bijection ==
    pc \in AfterMatrix =>
        /\ IsIndexMap(Range(Column(filtered_ratings, "user_id")),
                      mappings.user_to_idx, mappings.idx_to_user, mappings.n_users)
        /\ IsIndexMap(Range(Column(filtered_ratings, "isbn")),
                      mappings.book_to_idx, mappings.idx_to_book, mappings.n_books)

\* maps built over two users and two books
C5_Witness ==
    /\ pc = "features"
    /\ mappings.n_users = 2
    /\ mappings.n_books = 2

\* C7: create_interaction_matrix emits exactly one record per input triple,
\* with the rating unchanged, and the record's user_idx and book_idx resolve
\* through idx_to_user and idx_to_book to the triple's user_id and isbn.
C7_RecordsResolve ==
    pc \in AfterMatrix =>
        /\ Len(interaction_matrix) = Len(filtered_ratings)
        /\ \A i \in DOMAIN filtered_ratings :
              /\ interaction_matrix[i].rating = filtered_ratings[i].rating
              /\ interaction_matrix[i].user_idx \in DOMAIN mappings.idx_to_user
              /\ mappings.idx_to_user[interaction_matrix[i].user_idx]
                    = filtered_ratings[i].user_id
              /\ interaction_matrix[i].book_idx \in DOMAIN mappings.idx_to_book
              /\ mappings.idx_to_book[interaction_matrix[i].book_idx]
                    = filtered_ratings[i].isbn

\* three records whose users, books and ratings are not all alike
C7_Witness ==
    /\ pc = "features"
    /\ Len(interaction_matrix) = 3
    /\ interaction_matrix[1].user_idx # interaction_matrix[2].user_idx
    /\ interaction_matrix[1].book_idx # interaction_matrix[3].book_idx
    /\ interaction_matrix[1].rating # interaction_matrix[2].rating
    /\ interaction_matrix[1].user_idx # interaction_matrix[1].book_idx

\* C8: process_all hands its caller the filtered rating set, the index maps
\* with the n_users/n_books metadata, and the interaction records.
C8_ReturnsAllOutputs ==
    pc = "returned" =>
        /\ {"filtered_ratings", "mappings", "interaction_matrix"} \subseteq DOMAIN returned
        /\ returned.filtered_ratings = filtered_ratings
        /\ returned.mappings = mappings
        /\ returned.interaction_matrix = interaction_matrix

\* the data outputs of process_all
DataOutputs == {"enhanced_books", "filtered_ratings", "enhanced_users", "mappings"}

\* what the returned tuple carries besides the data outputs
StatusFlags(ret) == DOMAIN ret \ DataOutputs

\* C9: whenever the sparsity filter converges to zero triples, the caller of
\* the pipeline receives a status flag that reports the empty result.
C9_EmptyResultFlag ==
    (pc = "returned" /\ filtered_ratings = <<>>) => StatusFlags(returned) # {}

\* both thresholds exceed every per-user and per-book count of the input
ThresholdsExceedCounts ==
    LET c == CleanRatings(raw_ratings)
    IN  /\ \A i \in DOMAIN c :
              /\ min_ratings_per_user > CountIn(c, "user_id", c[i].user_id)
              /\ min_ratings_per_book > CountIn(c, "isbn", c[i].isbn)

\* C10: when both thresholds exceed the largest per-user and per-book count
\* of the input, filter_sparse_data returns the empty set and
\* create_interaction_matrix on it returns empty maps with n_users = 0 and
\* n_books = 0; both complete normally.
C10_TooStrictGivesEmpty ==
    ThresholdsExceedCounts =>
        /\ pc \in AfterFilter => filtered_ratings = <<>>
        /\ pc \in AfterMatrix =>
              /\ interaction_matrix = <<>>
              /\ DOMAIN mappings.user_to_idx = {}
              /\ DOMAIN mappings.book_to_idx = {}
              /\ DOMAIN mappings.idx_to_user = {}
              /\ DOMAIN mappings.idx_to_book = {}
              /\ mappings.n_users = 0
              /\ mappings.n_books = 0

\* a non-empty input without nulls under too strict thresholds, mapped
C10_Witness ==
    /\ pc = "features"
    /\ ThresholdsExceedCounts
    /\ Len(raw_ratings) >= 2
    /\ \A i \in DOMAIN raw_ratings :
          raw_ratings[i].User_ID # Null /\ raw_ratings[i].ISBN # Null
    /\ mappings.n_users = 0

\* the rows of r whose user_id and isbn are both present
NonNullRows(r) == SelectSeq(r, LAMBDA t : t.user_id # Null /\ t.isbn # Null)

\* C11 (as stated): if min_ratings_per_user or min_ratings_per_book is 0 or
\* 1, filter_sparse_data returns all input triples unchanged after executing
\* the loop body exactly once.
C11_PassThroughIfEither ==
    (pc \in AfterFilter /\ (min_ratings_per_user <= 1 \/ min_ratings_per_book <= 1)) =>
        /\ filtered_ratings = CleanRatings(raw_ratings)
        /\ n_pass = 1

\* C11 (amended): if both thresholds are 0 or 1, filter_sparse_data returns,
\* unchanged and in order, exactly the input triples whose user_id and isbn
\* are both present; the loop body runs once when that is every triple and
\* twice otherwise.
C11_PassThroughIfBoth ==
    (pc \in AfterFilter /\ min_ratings_per_user <= 1 /\ min_ratings_per_book <= 1) =>
        /\ filtered_ratings = NonNullRows(CleanRatings(raw_ratings))
        /\ n_pass = IF filtered_ratings = CleanRatings(raw_ratings) THEN 1 ELSE 2

\* a full input passed through in one run of the loop body
C11_Witness ==
    /\ pc = "matrix"
    /\ min_ratings_per_user = 1
    /\ min_ratings_per_book = 1
    /\ Len(raw_ratings) = MaxRows
    /\ filtered_ratings = CleanRatings(raw_ratings)
    /\ n_pass = 1

\* the raw rows that carry both identifiers, as triples
WellFormedTriples(rs) ==
    CleanRatings(SelectSeq(rs, LAMBDA t : t.User_ID # Null /\ t.ISBN # Null))

\* C12: clean_ratings produces no triple for a raw row whose user or item
\* identifier is missing, and exactly one triple, depending only on that
\* row, for every other row.  (`ratings` holds the cleaned frame until the
\* first pass of the filter.)
C12_CleanerDropsMalformed ==
    (pc = "filter_loop" /\ n_pass = 0) => ratings = WellFormedTriples(raw_ratings)

\* C16: across successive passes of the filter loop the number of surviving
\* triples never increases, and the loop stops exactly after the first pass
\* that removes no triple: after a pass that removed a triple another pass
\* runs, after a pass that removed none the loop is left.
C16_StopsAtFirstIdlePass ==
    [][(pc = "filter_loop" /\ n_pass >= 1) =>
          /\ pc' = "filter_loop" => /\ Len(ratings') <= Len(ratings)
                                    /\ Len(ratings) < prev_shape[1]
          /\ pc' = "matrix" => Len(ratings) = prev_shape[1]]_vars

\* the loop is left after three passes, the first two of which removed rows
C16_Witness ==
    /\ pc = "matrix"
    /\ n_pass = 3

\* what one pass keeps of r when the book counts are taken over `counted`
PassKeeps(r, counted, mu, mb) ==
    SelectSeq(r, LAMBDA t : /\ t.user_id # Null
                            /\ CountIn(r, "user_id", t.user_id) >= mu
                            /\ t.isbn # Null
                            /\ CountIn(counted, "isbn", t.isbn) >= mb)

\* the rows of r that survive a pass's user filter
UserFiltered(r, mu) ==
    SelectSeq(r, LAMBDA t : t.user_id # Null /\ CountIn(r, "user_id", t.user_id) >= mu)

\* C17 (as stated): within every pass the item filter uses per-item counts
\* computed over the triples that survived that same pass's user filter.
C17_ItemCountsAfterUserFilter ==
    [][(pc = "filter_loop" /\ pc' = "filter_loop") =>
          ratings' = PassKeeps(ratings, UserFiltered(ratings, min_ratings_per_user),
                               min_ratings_per_user, min_ratings_per_book)]_vars

\* C17 (amended): within every pass the item filter uses the per-item
\* counts of the triples the pass started with (taken before that pass's
\* user filter), and drops exactly the survivors of the user filter whose
\* isbn is missing or has a count below min_ratings_per_book in that set.
C17_ItemCountsBeforeUserFilter ==
    [][(pc = "filter_loop" /\ pc' = "filter_loop") =>
          ratings' = PassKeeps(ratings, ratings,
                               min_ratings_per_user, min_ratings_per_book)]_vars

\* after the first pass: the counts taken before and after the user filter
\* would keep different rows
C17_Witness ==
    /\ pc = "filter_loop"
    /\ n_pass = 1
    /\ LET c == CleanRatings(raw_ratings)
       IN  /\ ratings = PassKeeps(c, c, min_ratings_per_user, min_ratings_per_book)
           /\ ratings # PassKeeps(c, UserFiltered(c, min_ratings_per_user),
                                  min_ratings_per_user, min_ratings_per_book)

\* C18 (as stated): indices follow the lexicographic order of the raw
\* tokens: for two distinct user ids a and b of the set, the token of a
\* precedes the token of b if and only if index(a) < index(b).
C18_LexicographicIndices ==
    pc \in AfterMatrix =>
        \A a, b \in DOMAIN mappings.user_to_idx :
            a # b => (LexLess(Digits(a), Digits(b))
                        <=> mappings.user_to_idx[a] < mappings.user_to_idx[b])

\* C18 (amended): indices follow the sort order of the identifier column:
\* numeric for the integer user ids, and the order of the isbn strings for
\* the isbns (an isbn is modelled by its rank in that order).
C18_SortedIndices ==
    pc \in AfterMatrix =>
        /\ \A a, b \in DOMAIN mappings.user_to_idx :
              a < b <=> mappings.user_to_idx[a] < mappings.user_to_idx[b]
        /\ \A a, b \in DOMAIN mappings.book_to_idx :
              a < b <=> mappings.book_to_idx[a] < mappings.book_to_idx[b]

\* two users whose numeric and token orders differ are both indexed
C18_Witness ==
    /\ pc = "features"
    /\ \E a, b \in DOMAIN mappings.user_to_idx :
          a < b /\ LexLess(Digits(b), Digits(a))
    /\ mappings.n_books = 2

\* the rows of r at the positions S, as a bag: how often each row occurs
Occurrences(r, S, t) == Cardinality({i \in S : r[i] = t})

\* the positions S of r meet the minimum counts among themselves
StableSubset(r, S, mu, mb) ==
    \A i \in S :
        /\ Cardinality({j \in S : r[j].user_id = r[i].user_id}) >= mu
        /\ Cardinality({j \in S : r[j].isbn = r[i].isbn}) >= mb

\* C19: the set returned by filter_sparse_data is the greatest fixed point:
\* it is a subset of the input triples, and every subset of the input that
\* satisfies the minimum-count invariant over itself is contained in it.
C19_GreatestFixedPoint ==
    pc \in AfterFilter =>
        LET c == CleanRatings(raw_ratings)
        IN  /\ \A t \in Range(filtered_ratings) :
                  Occurrences(filtered_ratings, DOMAIN filtered_ratings, t)
                      <= Occurrences(c, DOMAIN c, t)
            /\ \A S \in SUBSET DOMAIN c :
                  StableSubset(c, S, min_ratings_per_user, min_ratings_per_book) =>
                      \A i \in S :
                          Occurrences(c, S, c[i])
                              <= Occurrences(filtered_ratings, DOMAIN filtered_ratings, c[i])

InferenceEndpoints == {"/predict", "/predict/batch", "/similarity"}

\* C13: a POST /predict/batch request carrying more than MAX_BATCH_SIZE
\* texts is always rejected with status 400 or 422 and yields no embeddings,
\* whatever MAX_BATCH_SIZE is and whatever the model's load state.
C13_BatchLimitEnforced ==
    (response.endpoint = "/predict/batch" /\ request.n_texts > max_batch_size) =>
        /\ response.status_code \in {400, 422}
        /\ response.n_embeddings = 0

\* C15: GET /health/live answers 200 whether or not the model is loaded;
\* GET /health/ready answers 200 with status "ready" and model_loaded true
\* exactly when the manager's model_loaded flag is true, and 503 otherwise.
C15_HealthProbes ==
    /\ response.endpoint = "/health/live" => response.status_code = 200
    /\ response.endpoint = "/health/ready" =>
          IF manager.model_loaded
          THEN /\ response.status_code = 200
               /\ response.status = "ready"
               /\ response.model_loaded = TRUE
          ELSE response.status_code = 503

\* the readiness probe has answered after load_model was tried and failed
C15_Witness ==
    /\ response.endpoint = "/health/ready"
    /\ response.status_code = 503
    /\ load_calls >= 1
    /\ ~manager.model_loaded

====
